---- MODULE Spec2Model ----
(***************************************************************************)
(* Module graph builder, symbol-level tree shaker and in-memory graph      *)
(* cache of the bundler (packages/bundler/src/lib.rs), driven as in        *)
(* main.rs.                                                                *)
(*                                                                         *)
(* A path is the sequence of its '/'-separated segments, so "././a" is     *)
(* <<".", ".", "a">> and "" is <<>>.  Two paths are the same string exactly *)
(* when they are the same sequence; the graph is keyed by these strings.   *)
(* Only relative paths inside one directory are modelled.                  *)
(***************************************************************************)
EXTENDS Integers, Sequences, FiniteSets, TLC

VARIABLES
    fs,            \* the files on disk: file name -> content
    entry,         \* the entry path handed to build_graph / tree_shake
    graph,         \* Graph.modules: id -> ModuleInfo
    stack,         \* the call stack of build_graph::walk
    parses,        \* the paths handed to parse_module that were read, in order
    result,        \* what build_graph returned
    pc,            \* position of the program
    reachable,     \* tree_shake: the modules the depth-first pass visited
    reverse,       \* tree_shake: the reverse dependency map
    symbol_queue,  \* tree_shake: the worklist
    current,       \* tree_shake: the pair popped from the worklist, if any
    keep,          \* tree_shake: the kept-set
    cache,         \* GRAPH_CACHE: entry key -> Graph
    lock,          \* the thread that holds the mutex of GRAPH_CACHE, or "none"
    callers,       \* cached_graph: each thread's call, its position and what it returned
    builds,        \* per key, the build_graph calls cached_graph started and those that failed
    edits          \* how many times the files were changed since the process started

vars == <<fs, entry, graph, stack, parses, result, pc, reachable, reverse,
          symbol_queue, current, keep, cache, lock, callers, builds, edits>>

(***************************************************************************)
(* Bounds of the model.                                                    *)
(***************************************************************************)
MaxImports == 3   \* import declarations in the files of a build, all together
MaxDots    == 2   \* leading "./" segments of the entry path
MaxQueue   == 4   \* length of the tree_shake worklist
MaxEdges   == 2   \* import declarations in a graph handed to tree_shake
MaxTable   == 4   \* entries of the exports and used_symbols tables of such a graph
MaxCalls   == 2   \* calls of cached_graph by one thread
MaxEdits   == 1   \* changes of the files while the process runs

Files == {"a", "b", "c"}
Syms  == {"x", "y"}

\* "./a", "./b", "./c" and the package specifier "pkg"
RelSpecs   == {<<".", f>> : f \in Files}
Specifiers == RelSpecs \cup {<<"pkg">>}

SeqsUpTo(S, n) == UNION {[1..k -> S] : k \in 0..n}

(***************************************************************************)
(* std::path as used by the bundler.                                       *)
(***************************************************************************)
\* str::starts_with('.') on a specifier: the first character of the string,
\* which is the first character of its first segment
StartsWithDot(imp) ==
    Len(imp) > 0 /\ Len(Head(imp)) > 0 /\ SubSeq(Head(imp), 1, 1) = "."

\* Components skips every "." that is not the first component.
RECURSIVE TrimRight(_)
TrimRight(p) ==
    IF Len(p) > 1 /\ p[Len(p)] = "." THEN TrimRight(SubSeq(p, 1, Len(p) - 1)) ELSE p

HasParent(p) == p # <<>>

\* Path::parent: the path without its final component
Parent(p) ==
    LET q == TrimRight(p) IN TrimRight(SubSeq(q, 1, Len(q) - 1))

\* Path::join with a relative right-hand side
Join(p, rel) == p \o rel

\* Mutant of normalize_path: the "." segments of the joined path are dropped,
\* as a resolver that canonicalises would do.
normalize_path_clean(base, rel) ==
    SelectSeq(Join(IF HasParent(base) THEN Parent(base) ELSE <<".">>, rel),
              LAMBDA x : x # ".")

\* normalize_path(base, rel)
normalize_path(base, rel) ==
    Join(IF HasParent(base) THEN Parent(base) ELSE <<".">>, rel)

(***************************************************************************)
(* The file system and parse_module.                                       *)
(***************************************************************************)
\* ModuleInfo { id, ..Default::default() }
EmptyInfo(id) == [id |-> id, imports |-> <<>>, exports |-> {}, used_symbols |-> {}]

\* The file a path names to the operating system, or "none" when there is no
\* such file: the last segment is the file name and every segment before it
\* is "." and names the directory.  Anything after a file name, a "." too, is
\* looked up inside the file and fails.
FileOf(p) ==
    IF /\ Len(p) > 0
       /\ p[Len(p)] \in Files
       /\ \A i \in 1..(Len(p) - 1) : p[i] = "."
    THEN p[Len(p)] ELSE "none"

\* fs::read_to_string(path) succeeds
Readable(p) == FileOf(p) # "none" /\ fs[FileOf(p)].status # "missing"

\* Mutant of parse_module: the declarations of a text that failed to parse are
\* kept instead of the default ModuleInfo.
parse_module_partial(p) ==
    LET f == fs[FileOf(p)]
    IN  [id |-> p, imports |-> f.imports, exports |-> f.exports,
         used_symbols |-> f.used_symbols]

\* parse_module(path) of a readable path: a file that does not parse leaves
\* the default ModuleInfo.
parse_module(p) ==
    LET f == fs[FileOf(p)]
    IN  IF f.status = "ok"
        THEN [id |-> p, imports |-> f.imports, exports |-> f.exports,
              used_symbols |-> f.used_symbols]
        ELSE EmptyInfo(p)

\* Graph::new()
EmptyGraph == [k \in {} |-> EmptyInfo(<<>>)]

\* HashMap::new() of the reverse map
EmptyMap == [k \in {} |-> <<>>]

\* HashMap::insert
Insert(g, k, v) == [x \in DOMAIN g \cup {k} |-> IF x = k THEN v ELSE g[x]]

(***************************************************************************)
(* build_graph: the recursion of walk is an explicit stack of frames.  A   *)
(* frame in phase "enter" is a call that has not run yet; in phase "loop"  *)
(* it is inside `for imp in imports` with `imports` still to visit.        *)
(***************************************************************************)
Frame(p, phase, imports) == [path |-> p, phase |-> phase, imports |-> imports]

Top == stack[Len(stack)]
Pop == SubSeq(stack, 1, Len(stack) - 1)
SetTop(fr) == [stack EXCEPT ![Len(stack)] = fr]

\* The threads that call cached_graph and the entries they ask for
Threads      == {"t1", "t2"}
CacheEntries == {<<"a">>, <<"b">>}

\* HashMap::new() of GRAPH_CACHE
EmptyCache == [k \in {} |-> EmptyGraph]

NoCall == [pc |-> "idle", key |-> <<>>, ret |-> [tag |-> "None"], calls |-> 0, at |-> 0]

CacheIdle ==
    /\ cache = EmptyCache
    /\ lock = "none"
    /\ callers = [t \in Threads |-> NoCall]
    /\ builds = [k \in CacheEntries |-> [runs |-> 0, failed |-> 0]]
    /\ edits = 0
CacheUnchanged == UNCHANGED <<cache, lock, callers, builds, edits>>

ShakeIdle ==
    reachable = {} /\ reverse = EmptyMap /\ symbol_queue = <<>> /\ current = <<>> /\ keep = {}
ShakeUnchanged == UNCHANGED <<reachable, reverse, symbol_queue, current, keep>>

\* line 49: the path is already a key of the graph, walk returns Ok(())
WalkVisited ==
    /\ pc = "walk" /\ stack # <<>> /\ Top.phase = "enter"
    /\ Top.path \in DOMAIN graph
    /\ stack' = Pop
    /\ UNCHANGED <<fs, entry, graph, parses, result, pc>>
    /\ ShakeUnchanged
    /\ CacheUnchanged

\* Mutant of WalkReadError: the failed walk is dropped and the caller goes on,
\* as `let _ = walk(p, graph);` would.
WalkReadErrorSkipped ==
    /\ pc = "walk" /\ stack # <<>> /\ Top.phase = "enter"
    /\ Top.path \notin DOMAIN graph
    /\ ~Readable(Top.path)
    /\ stack' = Pop
    /\ UNCHANGED <<fs, entry, graph, parses, result, pc>>
    /\ ShakeUnchanged
    /\ CacheUnchanged

\* line 50: parse_module fails on the read; `?` unwinds every frame and
\* build_graph returns the error, dropping the graph it was building
WalkReadError ==
    /\ pc = "walk" /\ stack # <<>> /\ Top.phase = "enter"
    /\ Top.path \notin DOMAIN graph
    /\ ~Readable(Top.path)
    /\ stack' = <<>>
    /\ graph' = EmptyGraph
    /\ result' = [tag |-> "Err"]
    /\ pc' = "failed"
    /\ UNCHANGED <<fs, entry, parses>>
    /\ ShakeUnchanged
    /\ CacheUnchanged

\* lines 50-52: parse the module and insert it before looking at its imports
WalkParse ==
    /\ pc = "walk" /\ stack # <<>> /\ Top.phase = "enter"
    /\ Top.path \notin DOMAIN graph
    /\ Readable(Top.path)
    /\ LET info == parse_module(Top.path)
       IN  /\ graph' = Insert(graph, Top.path, info)
           /\ stack' = SetTop(Frame(Top.path, "loop", info.imports))
    /\ parses' = Append(parses, Top.path)
    /\ UNCHANGED <<fs, entry, result, pc>>
    /\ ShakeUnchanged
    /\ CacheUnchanged

\* Mutant of WalkSkip: a specifier that does not start with '.' ends the loop,
\* as `break` in place of `continue` would, so the specifiers after it are
\* not visited.
WalkSkipBreak ==
    /\ pc = "walk" /\ stack # <<>> /\ Top.phase = "loop"
    /\ Top.imports # <<>>
    /\ ~StartsWithDot(Head(Top.imports))
    /\ stack' = SetTop(Frame(Top.path, "loop", <<>>))
    /\ UNCHANGED <<fs, entry, graph, parses, result, pc>>
    /\ ShakeUnchanged
    /\ CacheUnchanged

\* Mutant of WalkSkip: a specifier that does not start with '.' is joined to
\* the importer's directory and walked like a relative one.
WalkSkipFollowed ==
    /\ pc = "walk" /\ stack # <<>> /\ Top.phase = "loop"
    /\ Top.imports # <<>>
    /\ ~StartsWithDot(Head(Top.imports))
    /\ HasParent(Top.path)
    /\ stack' = Append(SetTop(Frame(Top.path, "loop", Tail(Top.imports))),
                       Frame(Join(Parent(Top.path), Head(Top.imports)), "enter", <<>>))
    /\ UNCHANGED <<fs, entry, graph, parses, result, pc>>
    /\ ShakeUnchanged
    /\ CacheUnchanged

\* line 53: a specifier that does not start with '.' is skipped
WalkSkip ==
    /\ pc = "walk" /\ stack # <<>> /\ Top.phase = "loop"
    /\ Top.imports # <<>>
    /\ ~StartsWithDot(Head(Top.imports))
    /\ stack' = SetTop(Frame(Top.path, "loop", Tail(Top.imports)))
    /\ UNCHANGED <<fs, entry, graph, parses, result, pc>>
    /\ ShakeUnchanged
    /\ CacheUnchanged

\* line 53: a relative specifier is joined to the importer's directory and walked
WalkRecurse ==
    /\ pc = "walk" /\ stack # <<>> /\ Top.phase = "loop"
    /\ Top.imports # <<>>
    /\ StartsWithDot(Head(Top.imports))
    /\ HasParent(Top.path)
    /\ stack' = Append(SetTop(Frame(Top.path, "loop", Tail(Top.imports))),
                       Frame(Join(Parent(Top.path), Head(Top.imports)), "enter", <<>>))
    /\ UNCHANGED <<fs, entry, graph, parses, result, pc>>
    /\ ShakeUnchanged
    /\ CacheUnchanged

\* line 54: the loop is over, walk returns Ok(())
WalkReturn ==
    /\ pc = "walk" /\ stack # <<>> /\ Top.phase = "loop"
    /\ Top.imports = <<>>
    /\ stack' = Pop
    /\ UNCHANGED <<fs, entry, graph, parses, result, pc>>
    /\ ShakeUnchanged
    /\ CacheUnchanged

\* lines 56-57: the outermost walk returned, build_graph returns Ok(graph)
BuildDone ==
    /\ pc = "walk" /\ stack = <<>>
    /\ result' = [tag |-> "Ok", graph |-> graph]
    /\ pc' = "built"
    /\ UNCHANGED <<fs, entry, graph, stack, parses>>
    /\ ShakeUnchanged
    /\ CacheUnchanged

(***************************************************************************)
(* The files a build starts from: three files of one directory that hold   *)
(* at most MaxImports import declarations between them.                    *)
(***************************************************************************)
ListsOfLen(n) == [1..n -> Specifiers]

\* Every module text declares and mentions something; what the tables hold
\* is up to the front end and is copied by build_graph unchanged.  A "bad"
\* file is a text that does not parse; its fields are what it was meant to
\* say.  A "missing" file cannot be read.
FilesOfLen(n) ==
    {[status |-> st, imports |-> i, exports |-> {"x"}, used_symbols |-> Syms] :
        st \in {"ok", "bad"}, i \in ListsOfLen(n)}
    \cup (IF n = 0
          THEN {[status |-> "missing", imports |-> <<>>, exports |-> {},
                 used_symbols |-> {}]}
          ELSE {})

Budgets(max) == {n \in [1..3 -> 0..max] : n[1] + n[2] + n[3] <= max}

FileSystems ==
    UNION {[a : FilesOfLen(n[1]), b : FilesOfLen(n[2]), c : FilesOfLen(n[3])] :
              n \in Budgets(MaxImports)}

Dots(n) == [i \in 1..n |-> "."]
EntryPaths == {Dots(n) \o <<f>> : n \in 0..MaxDots, f \in Files}

NoFiles == [f \in Files |-> [status |-> "missing", imports |-> <<>>, exports |-> {},
                             used_symbols |-> {}]]

Init ==
    /\ fs \in FileSystems
    /\ entry \in EntryPaths
    /\ graph = EmptyGraph
    /\ stack = <<Frame(entry, "enter", <<>>)>>
    /\ parses = <<>>
    /\ result = [tag |-> "None"]
    /\ pc = "walk"
    /\ ShakeIdle
    /\ CacheIdle

build_graph ==
    \/ WalkVisited
    \/ WalkReadError
    \/ WalkParse
    \/ WalkSkip
    \/ WalkRecurse
    \/ WalkReturn
    \/ BuildDone

Next == build_graph

Spec == Init /\ [][Next]_vars

(***************************************************************************)
(* tree_shake(graph, entry).                                               *)
(***************************************************************************)
\* format!("{}::{}", mod_id, sym): a symbol is an identifier and holds no ':',
\* so the string determines the pair and the pair stands for it.
KeepEntry(mod_id, sym) == <<mod_id, sym>>

\* lines 65-72: dfs(id, graph, set), the set after the call
RECURSIVE dfs(_, _, _), dfs_imports(_, _, _, _)
dfs(id, g, set) ==
    IF id \in set THEN set
    ELSE IF id \in DOMAIN g THEN dfs_imports(id, g[id].imports, g, set \cup {id})
    ELSE set \cup {id}
dfs_imports(id, imps, g, set) ==
    IF imps = <<>> THEN set
    ELSE dfs_imports(id, Tail(imps), g,
                     IF StartsWithDot(Head(imps))
                     THEN dfs(normalize_path(id, Head(imps)), g, set)
                     ELSE set)

\* reverse.entry(next).or_default().push(id)
PushParent(rev, next, id) ==
    [k \in DOMAIN rev \cup {next} |->
        IF k = next THEN Append(IF k \in DOMAIN rev THEN rev[k] ELSE <<>>, id)
        ELSE rev[k]]

\* line 77: the imports of one module, in order
RECURSIVE ReverseOfModule(_, _, _)
ReverseOfModule(rev, id, imps) ==
    IF imps = <<>> THEN rev
    ELSE ReverseOfModule(IF StartsWithDot(Head(imps))
                         THEN PushParent(rev, normalize_path(id, Head(imps)), id)
                         ELSE rev,
                         id, Tail(imps))

\* lines 75-78: the modules in the order the HashMap yields them
RECURSIVE BuildReverse(_, _, _)
BuildReverse(g, order, rev) ==
    IF order = <<>> THEN rev
    ELSE BuildReverse(g, Tail(order), ReverseOfModule(rev, Head(order), g[Head(order)].imports))

\* The modules whose turn in `for (id, info) in &graph.modules` pushes to the
\* reverse map; the place of the others in the iteration changes nothing.
Importers(g) == {k \in DOMAIN g : \E i \in DOMAIN g[k].imports : StartsWithDot(g[k].imports[i])}

\* The orders in which a HashMap or HashSet may yield the elements of S
Orders(S) == {o \in [1..Cardinality(S) -> S] : \A e \in S : \E i \in DOMAIN o : o[i] = e}

\* Mutant of Seeds: the exports of the entry module are seeded too.
SeedsWithExports(g, e, order) ==
    [i \in DOMAIN order |-> <<e, order[i]>>]
    \o (IF e \in DOMAIN g
        THEN LET ex == CHOOSE o \in Orders(g[e].exports) : TRUE
             IN  [i \in DOMAIN ex |-> <<e, ex[i]>>]
        ELSE <<>>)

\* lines 80-83: the worklist starts with every symbol the entry module uses
Seeds(g, e, order) == [i \in DOMAIN order |-> <<e, order[i]>>]

\* Mutant of Kept: the popped pair is kept without looking at the exports.
KeptUnchecked(g, mod_id, sym) ==
    IF mod_id \in DOMAIN g THEN {KeepEntry(mod_id, sym)} ELSE {}

\* Mutant of Kept: a module the worklist reaches keeps all its exports.
KeptAllExports(g, mod_id, sym) ==
    IF mod_id \in DOMAIN g THEN {KeepEntry(mod_id, x) : x \in g[mod_id].exports} ELSE {}

\* lines 85-89: the popped symbol is kept when its module exports it
Kept(g, mod_id, sym) ==
    IF mod_id \in DOMAIN g /\ sym \in g[mod_id].exports
    THEN {KeepEntry(mod_id, sym)} ELSE {}

\* Mutant of Propagate: only the first consumer of the list that uses the symbol
\* is pushed.
PropagateFirstOnly(g, rev, mod_id, sym) ==
    IF mod_id \in DOMAIN rev
    THEN LET users == SelectSeq(rev[mod_id],
                                LAMBDA p : p \in DOMAIN g /\ sym \in g[p].used_symbols)
         IN  IF users = <<>> THEN <<>> ELSE <<<<users[1], sym>>>>
    ELSE <<>>

\* Mutant of Propagate: the symbol is pushed for every id the popped module
\* imports, whether or not that id is a key of the graph.
PropagateToImports(g, rev, mod_id, sym) ==
    IF mod_id \in DOMAIN g
    THEN LET rel == SelectSeq(g[mod_id].imports, StartsWithDot)
         IN  [i \in DOMAIN rel |-> <<normalize_path(mod_id, rel[i]), sym>>]
    ELSE <<>>

\* lines 90-99: the pairs pushed for the consumers of the popped module
Propagate(g, rev, mod_id, sym) ==
    IF mod_id \in DOMAIN rev
    THEN LET users == SelectSeq(rev[mod_id],
                                LAMBDA p : p \in DOMAIN g /\ sym \in g[p].used_symbols)
         IN  [i \in DOMAIN users |-> <<users[i], sym>>]
    ELSE <<>>

\* Mutant of EntrySurface: only the exports the entry itself uses are added.
EntrySurfaceUsedOnly(g, e) ==
    IF e \in DOMAIN g
    THEN {KeepEntry(e, x) : x \in g[e].exports \cap g[e].used_symbols}
    ELSE {}

\* line 102: every export of the entry module
EntrySurface(g, e) ==
    IF e \in DOMAIN g THEN {KeepEntry(e, x) : x \in g[e].exports} ELSE {}

BuildUnchanged == UNCHANGED <<fs, entry, graph, stack, parses, result>>

\* lines 62-83: the reachability pass, the reverse map and the seeded worklist
ShakeStart ==
    /\ pc = "shake"
    /\ reachable' = dfs(entry, graph, {})
    /\ \E order \in Orders(Importers(graph)) : reverse' = BuildReverse(graph, order, EmptyMap)
    /\ \E order \in Orders(IF entry \in DOMAIN graph THEN graph[entry].used_symbols ELSE {}) :
           symbol_queue' = Seeds(graph, entry, order)
    /\ keep' = {}
    /\ current' = <<>>
    /\ pc' = "worklist"
    /\ BuildUnchanged
    /\ CacheUnchanged

Last(q) == q[Len(q)]
Front(q) == SubSeq(q, 1, Len(q) - 1)

\* line 84: `while let Some((mod_id, sym)) = symbol_queue.pop()`
ShakePop ==
    /\ pc = "worklist" /\ symbol_queue # <<>>
    /\ current' = Last(symbol_queue)
    /\ symbol_queue' = Front(symbol_queue)
    /\ pc' = "body"
    /\ UNCHANGED <<reachable, reverse, keep>>
    /\ BuildUnchanged
    /\ CacheUnchanged

\* lines 85-99: the body of the loop for the popped pair
ShakeBody ==
    /\ pc = "body"
    /\ LET q == symbol_queue \o Propagate(graph, reverse, current[1], current[2])
       IN  /\ Len(q) <= MaxQueue
           /\ symbol_queue' = q
    /\ keep' = keep \cup Kept(graph, current[1], current[2])
    /\ current' = <<>>
    /\ pc' = "worklist"
    /\ UNCHANGED <<reachable, reverse>>
    /\ BuildUnchanged
    /\ CacheUnchanged

\* The same body when the worklist outgrows MaxQueue: the loop goes on, the
\* model does not follow it.
ShakeOverflow ==
    /\ pc = "body"
    /\ Len(symbol_queue \o Propagate(graph, reverse, current[1], current[2])) > MaxQueue
    /\ pc' = "overflow"
    /\ UNCHANGED <<reachable, reverse, symbol_queue, current, keep>>
    /\ BuildUnchanged
    /\ CacheUnchanged

\* Mutant of ShakeFinish: the exports that are not kept are removed from the
\* modules of the graph.
ShakeFinishPruning ==
    /\ pc = "worklist" /\ symbol_queue = <<>>
    /\ keep' = keep \cup EntrySurface(graph, entry)
    /\ graph' = [k \in DOMAIN graph |->
                    [graph[k] EXCEPT !.exports = {x \in @ : KeepEntry(k, x) \in keep'}]]
    /\ pc' = "done"
    /\ UNCHANGED <<reachable, reverse, symbol_queue, current>>
    /\ UNCHANGED <<fs, entry, stack, parses, result>>
    /\ CacheUnchanged

\* lines 101-103: the worklist is empty; the entry's exports are added
ShakeFinish ==
    /\ pc = "worklist" /\ symbol_queue = <<>>
    /\ keep' = keep \cup EntrySurface(graph, entry)
    /\ pc' = "done"
    /\ UNCHANGED <<reachable, reverse, symbol_queue, current>>
    /\ BuildUnchanged
    /\ CacheUnchanged

tree_shake ==
    \/ ShakeStart
    \/ ShakePop
    \/ ShakeBody
    \/ ShakeOverflow
    \/ ShakeFinish

(***************************************************************************)
(* The graphs tree_shake is called on: up to three modules under the ids   *)
(* build_graph gives the files of one directory, with at most MaxEdges     *)
(* import declarations and at most MaxTable entries in their exports and   *)
(* used_symbols tables, all together.                                      *)
(***************************************************************************)
ShakeId(f) == <<".", ".", f>>

ImportShapes(P) ==
    UNION {[a : ListsOfLen(n[1]), b : ListsOfLen(n[2]), c : ListsOfLen(n[3])] :
              n \in {m \in Budgets(MaxEdges) :
                        /\ "a" \notin P => m[1] = 0
                        /\ "b" \notin P => m[2] = 0
                        /\ "c" \notin P => m[3] = 0}}

\* The tables as sets of <<file, table, symbol>> entries.  tree_shake never
\* looks inside a symbol, so of two families of tables that differ by swapping
\* "x" and "y" only the one where "x" has at least as many entries is taken.
Tables(P) ==
    {t \in SUBSET (P \X {"exports", "used_symbols"} \X Syms) :
        /\ Cardinality(t) <= MaxTable
        /\ Cardinality({e \in t : e[3] = "y"}) <= Cardinality({e \in t : e[3] = "x"})}

ShakeGraph(P, imps, t) ==
    [k \in {ShakeId(f) : f \in P} |->
        [id |-> k,
         imports |-> imps[k[3]],
         exports |-> {x \in Syms : <<k[3], "exports", x>> \in t},
         used_symbols |-> {x \in Syms : <<k[3], "used_symbols", x>> \in t}]]

ShakeInit ==
    /\ \E P \in SUBSET Files :
          \E imps \in ImportShapes(P), t \in Tables(P) : graph = ShakeGraph(P, imps, t)
    /\ entry = ShakeId("a")
    /\ fs = NoFiles
    /\ stack = <<>>
    /\ parses = <<>>
    /\ result = [tag |-> "None"]
    /\ pc = "shake"
    /\ ShakeIdle
    /\ CacheIdle

ShakeNext == tree_shake

ShakeSpec == ShakeInit /\ [][ShakeNext]_vars

\* The loop is sequential code: whenever it can take a step it does.
ShakeLive == ShakeSpec /\ WF_vars(ShakeNext)

(***************************************************************************)
(* cached_graph(entry) called from several threads of one process.  The    *)
(* MutexGuard `cache` taken on line 118 lives until the function returns,  *)
(* so the build of line 120 runs with the mutex held and the variables of  *)
(* build_graph belong to the one thread that holds it.  The files may      *)
(* change under the process at any moment.                                 *)
(***************************************************************************)
SetCaller(t, c) == [callers EXCEPT ![t] = c]

BuildIdle ==
    /\ graph = EmptyGraph /\ stack = <<>> /\ parses = <<>>
    /\ result = [tag |-> "None"] /\ pc = "idle"

\* The locals of a finished build_graph call go out of scope
BuildReset ==
    /\ graph' = EmptyGraph /\ stack' = <<>> /\ parses' = <<>>
    /\ result' = [tag |-> "None"] /\ pc' = "idle"

\* lines 116-117: a thread calls cached_graph(k) and computes the key
CacheCall(t) ==
    /\ callers[t].pc \in {"idle", "returned"}
    /\ callers[t].calls < MaxCalls
    /\ \E k \in CacheEntries :
          callers' = SetCaller(t, [pc |-> "call", key |-> k, ret |-> [tag |-> "None"],
                                   calls |-> callers[t].calls + 1, at |-> callers[t].at])
    /\ UNCHANGED <<fs, entry, graph, stack, parses, result, pc, cache, lock, builds, edits>>
    /\ ShakeUnchanged

\* Mutant of CacheLock: the guard is handed out while another thread holds it.
CacheLockShared(t) ==
    /\ callers[t].pc = "call"
    /\ lock' = t
    /\ callers' = SetCaller(t, [callers[t] EXCEPT !.pc = "locked", !.at = edits])
    /\ UNCHANGED <<fs, entry, graph, stack, parses, result, pc, cache, builds, edits>>
    /\ ShakeUnchanged

\* line 118: GRAPH_CACHE.lock() returns once no other thread holds the mutex
CacheLock(t) ==
    /\ callers[t].pc = "call"
    /\ lock = "none"
    /\ lock' = t
    /\ callers' = SetCaller(t, [callers[t] EXCEPT !.pc = "locked", !.at = edits])
    /\ UNCHANGED <<fs, entry, graph, stack, parses, result, pc, cache, builds, edits>>
    /\ ShakeUnchanged

\* Mutant of CacheHit: the stored graph is ignored and the entry is built again.
CacheHitRebuild(t) ==
    /\ callers[t].pc = "locked" /\ lock = t
    /\ callers[t].key \in DOMAIN cache
    /\ entry' = callers[t].key
    /\ graph' = EmptyGraph
    /\ stack' = <<Frame(callers[t].key, "enter", <<>>)>>
    /\ parses' = <<>>
    /\ result' = [tag |-> "None"]
    /\ pc' = "walk"
    /\ builds' = [builds EXCEPT ![callers[t].key].runs = @ + 1]
    /\ callers' = SetCaller(t, [callers[t] EXCEPT !.pc = "build"])
    /\ UNCHANGED <<fs, cache, lock, edits>>
    /\ ShakeUnchanged

\* line 119: the key is in the map; a clone of the stored graph is returned
\* and the guard is dropped
CacheHit(t) ==
    /\ callers[t].pc = "locked" /\ lock = t
    /\ callers[t].key \in DOMAIN cache
    /\ callers' = SetCaller(t, [callers[t] EXCEPT
                                   !.pc = "returned",
                                   !.ret = [tag |-> "Ok", graph |-> cache[callers[t].key]]])
    /\ lock' = "none"
    /\ UNCHANGED <<fs, entry, graph, stack, parses, result, pc, cache, builds, edits>>
    /\ ShakeUnchanged

\* Mutant of CacheMiss: the guard is dropped before the build starts.
CacheMissUnlocked(t) ==
    /\ callers[t].pc = "locked" /\ lock = t
    /\ callers[t].key \notin DOMAIN cache
    /\ entry' = callers[t].key
    /\ graph' = EmptyGraph
    /\ stack' = <<Frame(callers[t].key, "enter", <<>>)>>
    /\ parses' = <<>>
    /\ result' = [tag |-> "None"]
    /\ pc' = "walk"
    /\ builds' = [builds EXCEPT ![callers[t].key].runs = @ + 1]
    /\ callers' = SetCaller(t, [callers[t] EXCEPT !.pc = "build"])
    /\ lock' = "none"
    /\ UNCHANGED <<fs, cache, edits>>
    /\ ShakeUnchanged

\* lines 119-120: the key is not in the map; build_graph(entry) is called with
\* the guard still alive
CacheMiss(t) ==
    /\ callers[t].pc = "locked" /\ lock = t
    /\ callers[t].key \notin DOMAIN cache
    /\ entry' = callers[t].key
    /\ graph' = EmptyGraph
    /\ stack' = <<Frame(callers[t].key, "enter", <<>>)>>
    /\ parses' = <<>>
    /\ result' = [tag |-> "None"]
    /\ pc' = "walk"
    /\ builds' = [builds EXCEPT ![callers[t].key].runs = @ + 1]
    /\ callers' = SetCaller(t, [callers[t] EXCEPT !.pc = "build"])
    /\ UNCHANGED <<fs, cache, lock, edits>>
    /\ ShakeUnchanged

\* lines 121-122: the build succeeded; a clone of the graph is inserted under
\* the key, the graph is returned and the guard is dropped
CacheStore(t) ==
    /\ callers[t].pc = "build" /\ pc = "built"
    /\ cache' = Insert(cache, callers[t].key, result.graph)
    /\ callers' = SetCaller(t, [callers[t] EXCEPT
                                   !.pc = "returned",
                                   !.ret = [tag |-> "Ok", graph |-> result.graph]])
    /\ lock' = "none"
    /\ BuildReset
    /\ UNCHANGED <<fs, entry, builds, edits>>
    /\ ShakeUnchanged

\* Mutant of CacheFail: the failed build leaves an empty graph under the key.
CacheFailStored(t) ==
    /\ callers[t].pc = "build" /\ pc = "failed"
    /\ cache' = Insert(cache, callers[t].key, EmptyGraph)
    /\ callers' = SetCaller(t, [callers[t] EXCEPT !.pc = "returned", !.ret = [tag |-> "Err"]])
    /\ builds' = [builds EXCEPT ![callers[t].key].failed = @ + 1]
    /\ lock' = "none"
    /\ BuildReset
    /\ UNCHANGED <<fs, entry, edits>>
    /\ ShakeUnchanged

\* line 120: the build failed; `?` returns the error, nothing is inserted and
\* the guard is dropped on the way out
CacheFail(t) ==
    /\ callers[t].pc = "build" /\ pc = "failed"
    /\ callers' = SetCaller(t, [callers[t] EXCEPT !.pc = "returned", !.ret = [tag |-> "Err"]])
    /\ builds' = [builds EXCEPT ![callers[t].key].failed = @ + 1]
    /\ lock' = "none"
    /\ BuildReset
    /\ UNCHANGED <<fs, entry, cache, edits>>
    /\ ShakeUnchanged

cached_graph ==
    \E t \in Threads :
        \/ CacheCall(t)
        \/ CacheLock(t)
        \/ CacheHit(t)
        \/ CacheMiss(t)
        \/ CacheStore(t)
        \/ CacheFail(t)

\* What a file of the cached builds can hold: "a" imports "./b" and a package
\* or is missing, "b" imports itself or is missing.
CacheContents(f) ==
    IF f = "a"
    THEN {[status |-> "ok", imports |-> <<<<".", "b">>, <<"pkg">>>>, exports |-> {"x"},
           used_symbols |-> Syms],
          NoFiles["a"]}
    ELSE IF f = "b"
    THEN {[status |-> "ok", imports |-> <<<<".", "b">>>>, exports |-> {"x"},
           used_symbols |-> Syms],
          NoFiles["b"]}
    ELSE {NoFiles[f]}

CacheFileSystems == {x \in [Files -> UNION {CacheContents(f) : f \in Files}] :
                        \A f \in Files : x[f] \in CacheContents(f)}

\* Somebody rewrites, creates or deletes a file of the project
FsEdit ==
    /\ edits < MaxEdits
    /\ \E f \in Files : \E c \in CacheContents(f) \ {fs[f]} : fs' = [fs EXCEPT ![f] = c]
    /\ edits' = edits + 1
    /\ UNCHANGED <<entry, graph, stack, parses, result, pc, cache, lock, callers, builds>>
    /\ ShakeUnchanged

CacheInit ==
    /\ fs \in CacheFileSystems
    /\ entry = <<>>
    /\ BuildIdle
    /\ ShakeIdle
    /\ CacheIdle

CacheNext ==
    \/ cached_graph
    \/ build_graph
    \/ FsEdit

CacheSpec == CacheInit /\ [][CacheNext]_vars

(***************************************************************************)
(* Properties of tree_shake (ShakeSpec, ShakeLive).                        *)
(***************************************************************************)
Done == pc = "done"
EntryInfo == IF entry \in DOMAIN graph THEN graph[entry] ELSE EmptyInfo(entry)

\* The ids the relative imports of module id resolve to
Resolved(id) ==
    {normalize_path(id, graph[id].imports[i]) :
        i \in {j \in DOMAIN graph[id].imports : StartsWithDot(graph[id].imports[j])}}

\* m imports a module of the graph under id d
Imports(m, d) == m \in DOMAIN graph /\ d \in DOMAIN graph /\ d \in Resolved(m)

\* The modules that import id, directly or through other modules
RECURSIVE ConsumersOf(_)
ConsumersOf(S) ==
    LET T == S \cup {m \in DOMAIN graph : \E d \in S : d \in Resolved(m)}
    IN  IF T = S THEN S ELSE ConsumersOf(T)
Ancestors(id) == ConsumersOf({m \in DOMAIN graph : id \in Resolved(m)})

\* C1: when the entry module E imports a module D of the graph, every symbol
\* that E uses and D exports is in the kept-set as "D::s".
C1_UsedImportKept ==
    Done => \A d \in DOMAIN graph :
                Imports(entry, d) =>
                    \A x \in EntryInfo.used_symbols \cap graph[d].exports :
                        KeepEntry(d, x) \in keep

\* C2: when E imports F and F imports G (three modules), E uses x, F exports and uses x and G
\* exports x, the kept-set holds both "F::x" and "G::x".
C2_TransitivePropagation ==
    Done => \A f, g \in DOMAIN graph : \A x \in Syms :
                (/\ entry # f /\ f # g /\ g # entry
                 /\ Imports(entry, f) /\ Imports(f, g)
                 /\ x \in EntryInfo.used_symbols
                 /\ x \in graph[f].exports /\ x \in graph[f].used_symbols
                 /\ x \in graph[g].exports)
                => KeepEntry(f, x) \in keep /\ KeepEntry(g, x) \in keep

\* C3: every export n of an entry module that is in the graph is in the
\* kept-set as "E::n", whether or not the entry uses n.
C3_EntrySurface ==
    (Done /\ entry \in DOMAIN graph)
    => \A n \in graph[entry].exports : KeepEntry(entry, n) \in keep

C3_Witness ==
    /\ Done /\ entry \in DOMAIN graph
    /\ \E n \in graph[entry].exports \ graph[entry].used_symbols :
           KeepEntry(entry, n) \in keep
    /\ \E e \in keep : e[1] # entry

\* C4: tree_shake terminates on every graph: the worklist becomes empty and
\* the call returns.  A run the model stops following is not held against it.
C4_Terminates == <>(pc = "done" \/ pc = "overflow")

\* C7: for a module M other than the entry and a symbol s the entry does not
\* use, "M::s" is never in the kept-set.
C7_UnusedDropped ==
    \A e \in keep : e[1] # entry => e[2] \in EntryInfo.used_symbols

C7_Witness ==
    /\ Done
    /\ \E m \in DOMAIN graph \ {entry} :
          /\ \E x \in graph[m].exports : KeepEntry(m, x) \in keep
          /\ \E y \in graph[m].exports \ EntryInfo.used_symbols : KeepEntry(m, y) \notin keep

\* The entry does not use y and no module that imports the entry, directly or
\* through others, uses y
Unrelated(y) ==
    /\ y \notin EntryInfo.used_symbols
    /\ \A m \in Ancestors(entry) : y \notin graph[m].used_symbols

\* C8 as stated: when neither the entry nor an ancestor uses y, no "<module>::y"
\* is in the kept-set, for any module.
C8_NoUnrelatedName ==
    Done => \A y \in Syms : Unrelated(y) => \A e \in keep : e[2] # y

\* C8 as amended: when neither the entry nor an ancestor uses y, the only
\* "<module>::y" the kept-set can hold is the entry's own export "E::y".
C8_NoUnrelatedNameButEntryExport ==
    Done => \A y \in Syms :
                Unrelated(y) =>
                    \A e \in keep : e[2] = y => (e[1] = entry /\ y \in EntryInfo.exports)

C8_Witness ==
    /\ Done
    /\ \E y \in Syms :
          /\ Unrelated(y)
          /\ KeepEntry(entry, y) \in keep
          /\ \E m \in Ancestors(entry) \ {entry} :
                y \in graph[m].exports /\ KeepEntry(m, y) \notin keep

(***************************************************************************)
(* Properties of build_graph (Spec).                                       *)
(***************************************************************************)
Returned == pc \in {"built", "failed"}

\* The files the relative imports of file f name, as the text of f parses
ImportedFiles(f) ==
    IF f \in Files /\ fs[f].status = "ok"
    THEN {FileOf(fs[f].imports[i]) :
             i \in {j \in DOMAIN fs[f].imports : StartsWithDot(fs[f].imports[j])}}
    ELSE {}

\* The files reached from the entry through chains of relative imports
RECURSIVE FileClosure(_)
FileClosure(S) ==
    LET T == S \cup UNION {ImportedFiles(f) : f \in S}
    IN  IF T = S THEN S ELSE FileClosure(T)
ReachableFiles == FileClosure({FileOf(entry)})

UnreadableReached == \E f \in ReachableFiles : f \notin Files \/ fs[f].status = "missing"

\* The keys of graph g that name file f
KeysOf(g, f) == {k \in DOMAIN g : FileOf(k) = f}

\* Files A and B that parse and import each other
Mutual(A, B) ==
    /\ A # B /\ fs[A].status = "ok" /\ fs[B].status = "ok"
    /\ B \in ImportedFiles(A) /\ A \in ImportedFiles(B)

\* C5: when A and B import each other, build_graph(A) succeeds and its graph
\* holds A exactly once and B exactly once.
C5_CycleSafety ==
    \A A, B \in Files :
        (Returned /\ Mutual(A, B) /\ FileOf(entry) = A /\ ~UnreadableReached)
        => /\ result.tag = "Ok"
           /\ Cardinality(KeysOf(result.graph, A)) = 1
           /\ Cardinality(KeysOf(result.graph, B)) = 1

\* C6: during one build no module is loaded and parsed twice, and every id of
\* the graph was parsed.
C6_NoDuplicateParsing ==
    /\ \A i, j \in DOMAIN parses : FileOf(parses[i]) = FileOf(parses[j]) => i = j
    /\ pc = "built" => \A k \in DOMAIN graph : \E i \in DOMAIN parses : parses[i] = k

\* C9: when the entry or a module reached from it cannot be read, build_graph
\* returns an error and no graph.
C9_IoFailureFatal ==
    (Returned /\ UnreadableReached) => result = [tag |-> "Err"]

C9_Witness ==
    /\ pc = "failed" /\ result = [tag |-> "Err"]
    /\ UnreadableReached
    /\ Len(parses) >= 2

\* What build_graph stores for a readable file under key k
Stored(k) ==
    LET f == fs[FileOf(k)]
    IN  IF f.status = "bad" THEN EmptyInfo(k)
        ELSE [id |-> k, imports |-> f.imports, exports |-> f.exports,
              used_symbols |-> f.used_symbols]

\* C10: a file that is read but does not parse does not fail the build: it is
\* in the graph with empty imports, exports and used_symbols, and every module
\* reached without going through it is in the graph as parsed.
C10_SyntaxFailureNonFatal ==
    (Returned /\ ~UnreadableReached)
    => /\ result.tag = "Ok"
       /\ \A f \in ReachableFiles : KeysOf(result.graph, f) # {}
       /\ \A k \in DOMAIN result.graph : result.graph[k] = Stored(k)

C10_Witness ==
    /\ pc = "built"
    /\ \E i, j \in DOMAIN parses :
          /\ i < j
          /\ fs[FileOf(parses[i])].status = "bad"
          /\ result.graph[parses[i]] = EmptyInfo(parses[i])
          /\ fs[FileOf(parses[j])].status = "ok"
          /\ result.graph[parses[j]].exports # {}

\* The keys the relative imports of the module stored under key k resolve to:
\* each is joined to the directory of k
ImportedKeys(k) ==
    IF Readable(k) /\ fs[FileOf(k)].status = "ok" /\ HasParent(k)
    THEN {Join(Parent(k), fs[FileOf(k)].imports[i]) :
             i \in {j \in DOMAIN fs[FileOf(k)].imports :
                       StartsWithDot(fs[FileOf(k)].imports[j])}}
    ELSE {}

\* The ids reached from the entry through chains of relative imports
RECURSIVE KeyClosure(_)
KeyClosure(S) ==
    LET T == S \cup UNION {ImportedKeys(k) : k \in S}
    IN  IF T = S THEN S ELSE KeyClosure(T)
ReachableKeys == KeyClosure({entry})

\* C11: when every id reached from the entry through relative imports can be
\* read, build_graph succeeds and the keys of its graph are exactly those ids;
\* a specifier that does not begin with '.' stays in the imports of its module
\* and adds no key.
C11_KeysAreRelativeClosure ==
    (Returned /\ \A k \in ReachableKeys : Readable(k))
    => /\ result.tag = "Ok"
       /\ DOMAIN result.graph = ReachableKeys
       /\ \A k \in DOMAIN result.graph :
             fs[FileOf(k)].status = "ok" => result.graph[k].imports = fs[FileOf(k)].imports

C11_Witness ==
    /\ pc = "built"
    /\ Cardinality(DOMAIN result.graph) >= 2
    /\ DOMAIN result.graph = ReachableKeys
    /\ \E k \in DOMAIN result.graph :
          /\ \E i \in DOMAIN result.graph[k].imports : ~StartsWithDot(result.graph[k].imports[i])
          /\ \E i \in DOMAIN result.graph[k].imports : StartsWithDot(result.graph[k].imports[i])

\* The relative specifiers among the imports of a stored module
RelativeImports(info) ==
    {info.imports[i] : i \in {j \in DOMAIN info.imports : StartsWithDot(info.imports[j])}}

\* C13: tree_shake's normalize_path resolves a relative import of a module to
\* the key under which build_graph walked and stored it: every call of walk
\* below the outermost is for normalize_path(importer id, specifier), and in a
\* built graph every relative import of every module resolves to a key.
C13_ResolutionAgrees ==
    /\ \A n \in 2..Len(stack) :
          /\ stack[n - 1].path \in DOMAIN graph
          /\ \E imp \in RelativeImports(graph[stack[n - 1].path]) :
                stack[n].path = normalize_path(stack[n - 1].path, imp)
    /\ pc = "built" =>
          \A k \in DOMAIN result.graph :
              \A imp \in RelativeImports(result.graph[k]) :
                  /\ normalize_path(k, imp) \in DOMAIN result.graph
                  /\ result.graph[normalize_path(k, imp)].id = normalize_path(k, imp)

C13_Witness ==
    /\ pc = "built"
    /\ Len(entry) = 1
    /\ \E imp \in RelativeImports(result.graph[entry]) :
          LET k == normalize_path(entry, imp)
          IN  /\ k \in DOMAIN result.graph
              /\ \E imp2 \in RelativeImports(result.graph[k]) :
                    /\ normalize_path(k, imp2) \in DOMAIN result.graph
                    /\ normalize_path(k, imp2) \notin {entry, k}

(***************************************************************************)
(* Further properties of tree_shake (ShakeSpec).                           *)
(***************************************************************************)
\* C14: tree_shake never changes the graph it is given: no step of the call
\* adds or removes a key or alters a ModuleInfo.
C14_GraphNotMutated == [][graph' = graph]_vars

C14_Witness ==
    /\ Done
    /\ \E e \in keep : e[1] # entry
    /\ \E k \in DOMAIN graph : \E x \in graph[k].exports : KeepEntry(k, x) \notin keep

\* The modules named by the pairs of a worklist
QueuedModules(q) == {q[i][1] : i \in DOMAIN q}

\* The ids that relative imports of the graph resolve to and that are no key
DanglingIds == UNION {Resolved(k) : k \in DOMAIN graph} \ DOMAIN graph

\* C15: an id that is not a key of the graph is a no-op for tree_shake: it is
\* never in the worklist and never named in the kept-set, and when the entry
\* itself is not a key the worklist stays empty and the call returns the empty
\* set.
C15_AbsentIdsAreNoOps ==
    /\ \A e \in keep : e[1] \in DOMAIN graph
    /\ QueuedModules(symbol_queue) \subseteq DOMAIN graph
    /\ current # <<>> => current[1] \in DOMAIN graph
    /\ entry \notin DOMAIN graph =>
          /\ symbol_queue = <<>> /\ keep = {}
          /\ pc \in {"shake", "worklist", "done"}

C15_Witness ==
    /\ Done /\ keep = {}
    /\ entry \notin DOMAIN graph
    /\ entry \in DanglingIds
    /\ \E k \in DOMAIN graph :
          /\ entry \in Resolved(k)
          /\ graph[k].exports \cap graph[k].used_symbols # {}

\* C16: every element "M::s" of the returned set names a module M of the
\* reachable set that the depth-first pass from the entry computed.
C16_KeptAreReachable ==
    Done => \A e \in keep : e[1] \in reachable

\* C17: at every step of tree_shake, and so in the returned set, every element
\* of the kept-set is "M::s" for a key M of the graph and a member s of M's
\* exports.
C17_KeptPairsAreExports ==
    \A e \in keep : e[1] \in DOMAIN graph /\ e[2] \in graph[e[1]].exports

C17_Witness ==
    /\ pc = "body"
    /\ \E e \in keep : e[1] # entry
    /\ current[1] \in DOMAIN graph
    /\ current[2] \notin graph[current[1]].exports
    /\ graph[current[1]].exports # {}

(***************************************************************************)
(* Properties of cached_graph (CacheSpec).                                 *)
(***************************************************************************)
Ok(g) == [tag |-> "Ok", graph |-> g]

\* C12: once a graph is stored for an entry, no step changes or removes it or
\* starts another build of that entry, and every call that looks the entry up
\* returns the stored graph, also after the files have changed.
C12_Memoized ==
    [][\A k \in DOMAIN cache :
          /\ k \in DOMAIN cache' /\ cache'[k] = cache[k]
          /\ builds'[k] = builds[k]
          /\ \A t \in Threads :
                (callers[t].pc = "locked" /\ callers[t].key = k /\ callers'[t] # callers[t])
                => /\ callers'[t].pc = "returned"
                   /\ callers'[t].ret = Ok(cache[k])]_vars

\* A call that took the lock after the entry's file was deleted, with no edit
\* since, has returned the graph of the only build of its entry.
C12_Witness ==
    \E t \in Threads :
        /\ callers[t].pc = "returned"
        /\ callers[t].at = edits /\ edits >= 1
        /\ fs[FileOf(callers[t].key)].status = "missing"
        /\ builds[callers[t].key] = [runs |-> 1, failed |-> 0]
        /\ callers[t].ret = Ok(cache[callers[t].key])
        /\ Cardinality(DOMAIN cache[callers[t].key]) >= 2

\* The build_graph calls for key k that have not failed: running or succeeded
LiveBuilds(k) == builds[k].runs - builds[k].failed

\* Graph g is a whole build of entry k, not a part of one
WholeGraph(g, k) ==
    /\ k \in DOMAIN g
    /\ \A m \in DOMAIN g :
          /\ g[m].id = m
          /\ \A imp \in RelativeImports(g[m]) : normalize_path(m, imp) \in DOMAIN g

\* C18: however the calls of the threads interleave, at most one build of an
\* entry runs or has succeeded; once the entry is stored nobody is building
\* it, the map holds one whole graph under its key, and every caller that
\* returned a graph for the entry returned that one.
C18_BuiltOnce ==
    \A k \in CacheEntries :
        /\ LiveBuilds(k) <= 1
        /\ k \in DOMAIN cache =>
              /\ LiveBuilds(k) = 1
              /\ \A t \in Threads : ~(callers[t].pc = "build" /\ callers[t].key = k)
              /\ WholeGraph(cache[k], k)
        /\ \A t \in Threads :
              (callers[t].key = k /\ callers[t].ret.tag = "Ok")
              => k \in DOMAIN cache /\ callers[t].ret = Ok(cache[k])

C18_Witness ==
    \E k \in CacheEntries :
        /\ DOMAIN cache = {k}
        /\ Cardinality(DOMAIN cache[k]) >= 2
        /\ builds[k] = [runs |-> 1, failed |-> 0]
        /\ \A t \in Threads :
              callers[t] = [pc |-> "returned", key |-> k, ret |-> Ok(cache[k]),
                            calls |-> 1, at |-> 0]

\* Thread t is inside build_graph
Building(t) == callers[t].pc = "build" /\ pc = "walk"

\* C19 as stated: the build runs outside the lock: while a thread is inside
\* build_graph the mutex is free for the other callers.
C19_BuildOutsideLock ==
    \A t \in Threads : Building(t) => lock = "none"

\* C19 as amended: a thread holds the mutex from line 118 until its call
\* returns, the build included, so while one thread is between the lookup and
\* its return no other thread is past line 118.
C19_LockHeldThroughBuild ==
    \A t \in Threads :
        /\ callers[t].pc \in {"locked", "build"} <=> lock = t
        /\ callers[t].pc = "build" =>
              \A u \in Threads \ {t} : callers[u].pc \notin {"locked", "build"}

C19_Witness ==
    \E t, u \in Threads :
        /\ t # u
        /\ Building(t) /\ lock = t /\ Len(parses) >= 1
        /\ callers[u].pc = "call" /\ callers[u].key # callers[t].key
        /\ ~ENABLED CacheLock(u)

\* C20: when build_graph fails inside cached_graph the caller gets the error,
\* the map is as it was and the mutex is free; a key whose builds all failed
\* is not in the map, so the next call for it builds again.
C20_FailedBuildLeavesNothing ==
    [][/\ \A k \in CacheEntries :
             (builds'[k].runs > 0 /\ builds'[k].failed = builds'[k].runs)
             => k \notin DOMAIN cache'
       /\ \A t \in Threads :
             (callers[t].pc = "build" /\ pc = "failed" /\ callers'[t] # callers[t])
             => /\ callers'[t].pc = "returned"
                /\ callers'[t].ret = [tag |-> "Err"]
                /\ cache' = cache
                /\ lock' = "none"]_vars

\* One thread got the error for a key and a later call for the same key is
\* inside build_graph again.
C20_Witness ==
    \E t, u \in Threads :
        /\ t # u
        /\ callers[t].pc = "returned" /\ callers[t].ret = [tag |-> "Err"]
        /\ callers[u].key = callers[t].key
        /\ Building(u) /\ Len(parses) >= 1
        /\ builds[callers[t].key] = [runs |-> 2, failed |-> 1]
        /\ callers[t].key \notin DOMAIN cache

(***************************************************************************)
(* Order independence of tree_shake (ShakeSpec).                           *)
(***************************************************************************)
\* The modules the worklist reaches for symbol s starting from the modules S:
\* the importers of a reached module that use s are reached too
RECURSIVE UsersClosure(_, _)
UsersClosure(S, s) ==
    LET T == S \cup {m \in DOMAIN graph :
                        s \in graph[m].used_symbols /\ \E d \in S : d \in Resolved(m)}
    IN  IF T = S THEN S ELSE UsersClosure(T, s)

\* The kept-set as a function of the graph and the entry alone
KeptFixedPoint ==
    IF entry \in DOMAIN graph
    THEN {e \in (DOMAIN graph) \X graph[entry].used_symbols :
             e[1] \in UsersClosure({entry}, e[2]) /\ e[2] \in graph[e[1]].exports}
         \cup EntrySurface(graph, entry)
    ELSE {}

\* C21: on a graph and entry on which tree_shake terminates, the returned
\* kept-set is one set fixed by the graph and the entry, whatever the order in
\* which used_symbols and the modules of the graph are iterated and so
\* whatever the order of the consumer lists and of the pops.
C21_OrderIndependent ==
    Done => keep = KeptFixedPoint

\* A finished run in which the entry has two consumers listed against the
\* order of their ids, both reached by the worklist, and one of them kept.
C21_Witness ==
    /\ Done
    /\ entry \in DOMAIN reverse
    /\ reverse[entry] = <<ShakeId("c"), ShakeId("b")>>
    /\ \E s \in EntryInfo.used_symbols :
          /\ UsersClosure({entry}, s) = DOMAIN graph
          /\ \E e \in keep : e[1] # entry /\ e[2] = s

(***************************************************************************)
(* Determinism of build_graph (Spec).                                      *)
(***************************************************************************)
\* The graph of a successful build as a function of the files and the entry:
\* the ids reached through the sets of relative imports, each with what its
\* file holds.  The order of the specifiers in a file does not enter.
GraphOfFiles == [k \in ReachableKeys |-> Stored(k)]

\* C22: for fixed files, the graph a successful build_graph(entry) returns is
\* fixed by the files and the entry: it does not depend on the order in which
\* the import specifiers of a module are visited, which only shows in the
\* order of the visits.
C22_BuildDeterministic ==
    pc = "built" => result.graph = GraphOfFiles

\* A successful build whose entry lists "./c" before "./b" and a package
\* specifier between or around them, visited in that order.
C22_Witness ==
    /\ pc = "built"
    /\ result.graph = GraphOfFiles
    /\ Len(parses) = 3
    /\ parses[1] = entry
    /\ FileOf(parses[2]) = "c" /\ FileOf(parses[3]) = "b"
    /\ {parses[2], parses[3]} \subseteq ImportedKeys(entry)
    /\ \E i \in DOMAIN result.graph[entry].imports :
          ~StartsWithDot(result.graph[entry].imports[i])
====
